---- MODULE Spec2Model ----
(***************************************************************************)
(* Model of the bulk-clear-formatting add-on.                              *)
(*                                                                         *)
(*   src/bulk_clear_formatting.py  stripFormatting(txt, preserve_br), the  *)
(*                                 ClearFormattingDialog and its           *)
(*                                 onClearFormatting entry point           *)
(*   src/__init__.py               stripFormatting(txt) and the            *)
(*                                 dialog-less onClearFormatting           *)
(*                                                                         *)
(* Text is a sequence of one-character strings.  The host (collection,     *)
(* undo checkpoints, progress, tooltips) is modelled by what the add-on    *)
(* asks of it: the stored notes and a record of the calls made.            *)
(***************************************************************************)
EXTENDS Integers, Sequences, FiniteSets, TLC

VARIABLES
    \* ---- text stripper harness ----
    txt,          \* the string handed to stripFormatting
    preserve_br,  \* its preserve_br argument
    out1,         \* stripFormatting(txt, preserve_br)
    out2,         \* stripFormatting(out1, preserve_br)
    stage,        \* "input" | "once" | "twice" ("off" outside SpecStrip)
    \* ---- host store ----
    col,          \* note id -> [fields, mid]  (mw.col)
    nids,         \* browser.selectedNotes()
    \* ---- workflow ----
    entry,        \* which onClearFormatting runs: "dialog" | "legacy" | "off"
    phase,        \* position of the workflow
    field_name,   \* field_selector.currentText()
    clear_all,    \* checkbox_all.isChecked()
    dlg_preserve, \* checkbox_preserve_br.isChecked()
    idx,          \* position of the for loop in nids (1-based)
    count,        \* on_confirm's local counter
    \* ---- record of host calls ----
    checkpoints,  \* number of mw.checkpoint calls
    progress,     \* "none" | "started" | "finished"
    flushed,      \* note ids in the order note.flush() was called
    notices,      \* tooltip / showCritical messages, in order
    asked,        \* an askUser prompt was shown
    \* ---- history ----
    before,       \* col when the workflow was triggered
    confirmed,    \* askUser answered yes in this invocation
    visited       \* set of phases the workflow has been in

vars == <<txt, preserve_br, out1, out2, stage, col, nids, entry, phase,
          field_name, clear_all, dlg_preserve, idx, count, checkpoints,
          progress, flushed, notices, asked, before, confirmed, visited>>

stripVars == <<txt, preserve_br, out1, out2, stage>>
wfVars == <<col, nids, entry, phase, field_name, clear_all, dlg_preserve,
            idx, count, checkpoints, progress, flushed, notices, asked,
            before, confirmed, visited>>

----------------------------------------------------------------------------
(* Bounds *)

\* longest input of the stripper harness, in pieces
MaxPieces == 5
\* number of notes in the collection
MaxNotes == 3

----------------------------------------------------------------------------
(* Text *)

NL == "\n"
LT == "<"
GT == ">"

IMG == <<"i", "m", "g">>
BR == <<"b", "r">>
\* the literal <img src="x">
ImgTag == <<"<", "i", "m", "g", " ", "s", "r", "c", "=", "\"", "x", "\"", ">">>

Min(S) == CHOOSE m \in S : \A n \in S : m <= n

\* w occurs in s starting at position i
LookingAt(s, i, w) ==
    /\ i >= 1
    /\ i + Len(w) - 1 <= Len(s)
    /\ \A j \in 1..Len(w) : s[i + j - 1] = w[j]

Contains(s, w) == \E i \in 1..(Len(s) + 1) : LookingAt(s, i, w)

\* the negative lookahead (?!img) or (?!img|br) right after the '<' at i
Exempt(s, i, alts) == \E w \in alts : LookingAt(s, i + 1, w)

\* ".*?>" after the '<' at i: the shortest run of characters other than
\* newline (no re.DOTALL) that is followed by '>'; 0 when there is none
MatchEnd(s, i) ==
    LET ks == {k \in (i + 1)..Len(s) :
                  /\ s[k] = GT
                  /\ \A j \in (i + 1)..(k - 1) : s[j] # NL}
    IN IF ks = {} THEN 0 ELSE Min(ks)

\* the pattern "<(?!alts).*?>" matches at i
MatchesAt(s, i, alts) ==
    /\ s[i] = LT
    /\ ~Exempt(s, i, alts)
    /\ MatchEnd(s, i) # 0

RECURSIVE SubFromFirstOnly(_, _, _)
SubFromFirstOnly(s, i, alts) ==
    IF i > Len(s) THEN <<>>
    ELSE IF MatchesAt(s, i, alts)
         THEN SubSeq(s, MatchEnd(s, i) + 1, Len(s))
         ELSE <<s[i]>> \o SubFromFirstOnly(s, i + 1, alts)

\* re.sub(pattern, "", s) from position i: leftmost match, non-overlapping,
\* the scan resumes after the end of each match
RECURSIVE SubFrom(_, _, _)
SubFrom(s, i, alts) ==
    IF i > Len(s) THEN <<>>
    ELSE IF MatchesAt(s, i, alts)
         THEN SubFrom(s, MatchEnd(s, i) + 1, alts)
         ELSE <<s[i]>> \o SubFrom(s, i + 1, alts)

stripFormattingNoImg(t, pb) ==
    IF pb THEN SubFrom(t, 1, {BR}) ELSE SubFrom(t, 1, {})

\* bulk_clear_formatting.stripFormatting
stripFormatting(t, pb) ==
    IF pb THEN SubFrom(t, 1, {IMG, BR}) ELSE SubFrom(t, 1, {IMG})

\* __init__.stripFormatting
stripFormattingLegacy(t) == SubFrom(t, 1, {IMG})

----------------------------------------------------------------------------
(* Reference of the specification's 4.1: as SubFrom, but the characters    *)
(* between the angle brackets may be any characters, newlines included     *)

RefMatchEnd(s, i) ==
    LET ks == {k \in (i + 1)..Len(s) : s[k] = GT}
    IN IF ks = {} THEN 0 ELSE Min(ks)

RECURSIVE RefFrom(_, _, _)
RefFrom(s, i, alts) ==
    IF i > Len(s) THEN <<>>
    ELSE IF s[i] = LT /\ ~Exempt(s, i, alts) /\ RefMatchEnd(s, i) # 0
         THEN RefFrom(s, RefMatchEnd(s, i) + 1, alts)
         ELSE <<s[i]>> \o RefFrom(s, i + 1, alts)

RefStrip(t, pb) ==
    IF pb THEN RefFrom(t, 1, {IMG, BR}) ELSE RefFrom(t, 1, {IMG})

----------------------------------------------------------------------------
(* Stripper harness: every input of up to MaxPieces pieces, both flags *)

Pieces == {<<LT>>, <<GT>>, <<NL>>, <<"b">>, IMG, BR, ImgTag}

RECURSIVE Flatten(_)
Flatten(ps) == IF ps = <<>> THEN <<>> ELSE Head(ps) \o Flatten(Tail(ps))

Inputs == {Flatten(ps) : ps \in UNION {[1..n -> Pieces] : n \in 0..MaxPieces}}

WfOff ==
    /\ col = <<>>
    /\ nids = <<>>
    /\ entry = "off"
    /\ phase = "off"
    /\ field_name = "none"
    /\ clear_all = FALSE
    /\ dlg_preserve = FALSE
    /\ idx = 0
    /\ count = 0
    /\ checkpoints = 0
    /\ progress = "none"
    /\ flushed = <<>>
    /\ notices = <<>>
    /\ asked = FALSE
    /\ before = <<>>
    /\ confirmed = FALSE
    /\ visited = {}

InitStrip ==
    /\ txt \in Inputs
    /\ preserve_br \in BOOLEAN
    /\ out1 = <<>>
    /\ out2 = <<>>
    /\ stage = "input"
    /\ WfOff

StripOnce ==
    /\ stage = "input"
    /\ out1' = stripFormatting(txt, preserve_br)
    /\ stage' = "once"
    /\ UNCHANGED <<txt, preserve_br, out2>>
    /\ UNCHANGED wfVars

StripTwice ==
    /\ stage = "once"
    /\ out2' = stripFormatting(out1, preserve_br)
    /\ stage' = "twice"
    /\ UNCHANGED <<txt, preserve_br, out1>>
    /\ UNCHANGED wfVars

NextStrip == StripOnce \/ StripTwice

SpecStrip == InitStrip /\ [][NextStrip]_vars

----------------------------------------------------------------------------
(* Claims about the stripper *)

\* C3: stripFormatting is idempotent: stripping the stripped text again,
\* with the same flag, gives the stripped text.
C3_Idempotent == stage = "twice" => out2 = out1

\* a second pass over a text from which the first pass removed a tag
C3_Witness ==
    /\ stage = "twice"
    /\ out1 # txt
    /\ Contains(out1, <<LT>>)
    /\ Contains(out1, <<GT>>)

\* the '<' at j is an unclosed '<' of a removable tag in front of position i
UnclosedBefore(s, j, i, alts) ==
    /\ j < i
    /\ s[j] = LT
    /\ ~Exempt(s, j, alts)
    /\ \A k \in (j + 1)..(i - 1) : s[k] # GT /\ s[k] # NL

Alts(pb) == IF pb THEN {IMG, BR} ELSE {IMG}

\* C4 as stated: every text containing <img src="x"> keeps it.
C4_ImgSurvivesAlways ==
    (stage # "input" /\ Contains(txt, ImgTag)) => Contains(out1, ImgTag)

\* C4, amended: a text containing <img src="x"> at a position that is not
\* preceded by an unclosed '<' of a removable tag keeps that substring.
C4_ImgSurvives ==
    stage # "input" =>
        \A i \in 1..Len(txt) :
            (/\ LookingAt(txt, i, ImgTag)
             /\ ~\E j \in 1..(i - 1) :
                    UnclosedBefore(txt, j, i, Alts(preserve_br)))
            => Contains(out1, ImgTag)

\* an image tag kept while something else was removed
C4_Witness ==
    /\ stage = "once"
    /\ Contains(txt, ImgTag)
    /\ out1 # txt
    /\ Contains(out1, ImgTag)

\* C5: stripFormatting equals the reference that removes every non-greedy
\* '<' ... '>' span, newlines allowed inside the span, except img spans
\* and, under the flag, br spans.
C5_EqualsReference == stage # "input" => out1 = RefStrip(txt, preserve_br)

----------------------------------------------------------------------------
(* Host store *)

None == "None"

PlainA == <<"A">>
BoldA == <<"<", "b", ">", "A", "<", "/", "b", ">">>
BrAB == <<"A", "<", "b", "r", ">", "B">>

\* note types of the collection: mid -> ordered field names
Models == [m1 |-> <<"Front", "Back">>, m2 |-> <<"Back", "Extra">>]

\* a note's mid may name a note type the collection no longer has
Mids == {"m1", "m2", "gone"}

NoteIds == 1..MaxNotes

NoteRecs == [fields : {<<a, b>> : a \in {PlainA, BoldA}, b \in {PlainA, BrAB}},
             mid : Mids]

\* content of the notes that are not selected
RestNote == [fields |-> <<BoldA, BrAB>>, mid |-> "m1"]

Range(f) == {f[i] : i \in DOMAIN f}

\* note.note_type()
note_type(note) == IF note.mid \in DOMAIN Models THEN Models[note.mid] ELSE None

\* list.index(x): position of the first occurrence
IndexOf(names, name) == Min({i \in DOMAIN names : names[i] = name})

\* browser.selectedNotes(): distinct note ids; taken in ascending order,
\* every other order being a renaming of the notes
Selections ==
    {sel \in UNION {[1..n -> NoteIds] : n \in 0..MaxNotes} :
        \A i, j \in DOMAIN sel : i < j => sel[i] < sel[j]}

----------------------------------------------------------------------------
(* Workflow of bulk_clear_formatting.py *)

get_fieldsUnchecked ==
    IF nids = <<>> THEN None
    ELSE IF note_type(col[nids[1]]) = None THEN Models["m1"]
    ELSE note_type(col[nids[1]])

\* ClearFormattingDialog.get_fields
get_fields ==
    IF nids = <<>> THEN None
    ELSE note_type(col[nids[1]])

InitWf ==
    /\ nids \in Selections
    /\ col \in [NoteIds -> NoteRecs]
    /\ \A n \in NoteIds : n \notin Range(nids) => col[n] = RestNote
    /\ entry = "none"
    /\ phase = "Idle"
    /\ field_name = "none"
    /\ clear_all = FALSE
    /\ dlg_preserve = FALSE
    /\ idx = 0
    /\ count = 0
    /\ checkpoints = 0
    /\ progress = "none"
    /\ flushed = <<>>
    /\ notices = <<>>
    /\ asked = FALSE
    /\ before = col
    /\ confirmed = FALSE
    /\ visited = {"Idle"}
    /\ txt = <<>>
    /\ preserve_br = FALSE
    /\ out1 = <<>>
    /\ out2 = <<>>
    /\ stage = "off"

GoTo(p) ==
    /\ phase' = p
    /\ visited' = visited \cup {p}

\* onClearFormatting and ClearFormattingDialog.__init__, up to dialog.exec()
Trigger ==
    /\ phase = "Idle"
    /\ entry' = "dialog"
    /\ IF nids = <<>>
       THEN /\ notices' = Append(notices, [kind |-> "No notes selected.", n |-> 0, scope |-> "none"])
            /\ GoTo("Done")
            /\ UNCHANGED field_name
       ELSE IF get_fields = None
       THEN \* showCritical, self.close(), return; exec() then shows the
            \* window that was never given a layout
            /\ notices' = Append(notices, [kind |-> "Error: Could not determine note type of selected notes", n |-> 0, scope |-> "none"])
            /\ GoTo("BlankDialog")
            /\ UNCHANGED field_name
       ELSE /\ GoTo("Configuring")
            /\ field_name' = get_fields[1]
            /\ UNCHANGED notices
    /\ clear_all' = FALSE
    /\ dlg_preserve' = FALSE
    /\ UNCHANGED <<col, nids, idx, count, checkpoints, progress, flushed,
                   asked, before, confirmed>>
    /\ UNCHANGED stripVars

\* the user closes the window of a dialog whose construction was abandoned
DismissBlank ==
    /\ phase = "BlankDialog"
    /\ GoTo("Done")
    /\ UNCHANGED <<col, nids, entry, field_name, clear_all, dlg_preserve, idx,
                   count, checkpoints, progress, flushed, notices, asked,
                   before, confirmed>>
    /\ UNCHANGED stripVars

\* the user picks an entry of field_selector (disabled while checkbox_all
\* is checked)
SelectField(f) ==
    /\ phase = "Configuring"
    /\ ~clear_all
    /\ f \in Range(get_fields)
    /\ f # field_name
    /\ field_name' = f
    /\ UNCHANGED <<col, nids, entry, phase, clear_all, dlg_preserve, idx,
                   count, checkpoints, progress, flushed, notices, asked,
                   before, confirmed, visited>>
    /\ UNCHANGED stripVars

\* the user toggles checkbox_all; on_checkbox_changed
ToggleAll ==
    /\ phase = "Configuring"
    /\ clear_all' = ~clear_all
    /\ UNCHANGED <<col, nids, entry, phase, field_name, dlg_preserve, idx,
                   count, checkpoints, progress, flushed, notices, asked,
                   before, confirmed, visited>>
    /\ UNCHANGED stripVars

\* the user toggles checkbox_preserve_br
TogglePreserve ==
    /\ phase = "Configuring"
    /\ dlg_preserve' = ~dlg_preserve
    /\ UNCHANGED <<col, nids, entry, phase, field_name, clear_all, idx,
                   count, checkpoints, progress, flushed, notices, asked,
                   before, confirmed, visited>>
    /\ UNCHANGED stripVars

\* cancel_button.clicked -> self.close
Cancel ==
    /\ phase = "Configuring"
    /\ GoTo("Done")
    /\ UNCHANGED <<col, nids, entry, field_name, clear_all, dlg_preserve, idx,
                   count, checkpoints, progress, flushed, notices, asked,
                   before, confirmed>>
    /\ UNCHANGED stripVars

\* clear_button.clicked -> on_confirm, up to the askUser prompt
ClickClear ==
    /\ phase = "Configuring"
    /\ asked' = TRUE
    /\ GoTo("Confirming")
    /\ UNCHANGED <<col, nids, entry, field_name, clear_all, dlg_preserve, idx,
                   count, checkpoints, progress, flushed, notices, before,
                   confirmed>>
    /\ UNCHANGED stripVars

\* on_confirm: askUser returned False; the dialog stays open
AnswerNo ==
    /\ phase = "Confirming"
    /\ GoTo("Configuring")
    /\ UNCHANGED <<col, nids, entry, field_name, clear_all, dlg_preserve, idx,
                   count, checkpoints, progress, flushed, notices, asked,
                   before, confirmed>>
    /\ UNCHANGED stripVars

\* on_confirm: askUser returned True; checkpoint, progress.start, count = 0
AnswerYes ==
    /\ phase = "Confirming"
    /\ confirmed' = TRUE
    /\ checkpoints' = checkpoints + 1
    /\ progress' = "started"
    /\ count' = 0
    /\ idx' = 1
    /\ GoTo("Applying")
    /\ UNCHANGED <<col, nids, entry, field_name, clear_all, dlg_preserve,
                   flushed, notices, asked, before>>
    /\ UNCHANGED stripVars

\* the indices on_confirm strips in a note
TargetsFirstSchema(note) ==
    IF clear_all THEN DOMAIN note.fields
    ELSE IF field_name \in Range(note_type(note))
         THEN {IndexOf(get_fields, field_name)}
         ELSE {}

Targets(note) ==
    IF clear_all THEN DOMAIN note.fields
    ELSE IF field_name \in Range(note_type(note))
         THEN {IndexOf(note_type(note), field_name)}
         ELSE {}

\* the note's fields after the loop body
Stripped(note, targets, pb) ==
    [i \in DOMAIN note.fields |->
        IF i \in targets THEN stripFormatting(note.fields[i], pb)
        ELSE note.fields[i]]

Changed(note, targets, pb) ==
    {i \in targets : stripFormatting(note.fields[i], pb) # note.fields[i]}

ApplyNoteCheckpointEach ==
    /\ phase = "Applying"
    /\ entry = "dialog"
    /\ idx <= Len(nids)
    /\ LET nid == nids[idx]
           note == col[nid]
       IN IF ~clear_all /\ note_type(note) = None
          THEN /\ GoTo("Raised")
               /\ UNCHANGED <<col, idx, count, flushed, checkpoints>>
          ELSE /\ col' = [col EXCEPT ![nid].fields =
                              Stripped(note, Targets(note), dlg_preserve)]
               /\ count' = count + Cardinality(Changed(note, Targets(note), dlg_preserve))
               /\ flushed' = Append(flushed, nid)
               /\ checkpoints' = checkpoints + 1
               /\ idx' = idx + 1
               /\ UNCHANGED <<phase, visited>>
    /\ UNCHANGED <<nids, entry, field_name, clear_all, dlg_preserve,
                   progress, notices, asked, before, confirmed>>
    /\ UNCHANGED stripVars

\* on_confirm: one iteration of "for nid in self._nids"
ApplyNote ==
    /\ phase = "Applying"
    /\ entry = "dialog"
    /\ idx <= Len(nids)
    /\ LET nid == nids[idx]
           note == col[nid]
       IN IF ~clear_all /\ note_type(note) = None
          THEN \* field_names(None) raises; the handler is left
               /\ GoTo("Raised")
               /\ UNCHANGED <<col, idx, count, flushed>>
          ELSE /\ col' = [col EXCEPT ![nid].fields =
                              Stripped(note, Targets(note), dlg_preserve)]
               /\ count' = count + Cardinality(Changed(note, Targets(note), dlg_preserve))
               /\ flushed' = Append(flushed, nid)
               /\ idx' = idx + 1
               /\ UNCHANGED <<phase, visited>>
    /\ UNCHANGED <<nids, entry, field_name, clear_all, dlg_preserve,
                   checkpoints, progress, notices, asked, before, confirmed>>
    /\ UNCHANGED stripVars

\* on_confirm after the loop: progress.finish, reset, close, tooltip
Finish ==
    /\ phase = "Applying"
    /\ entry = "dialog"
    /\ idx > Len(nids)
    /\ progress' = "finished"
    /\ notices' = Append(notices,
                         [kind |-> "Cleared formatting", n |-> Len(nids),
                          scope |-> IF clear_all THEN "ALL" ELSE field_name])
    /\ GoTo("Done")
    /\ UNCHANGED <<col, nids, entry, field_name, clear_all, dlg_preserve, idx,
                   count, checkpoints, flushed, asked, before, confirmed>>
    /\ UNCHANGED stripVars

----------------------------------------------------------------------------
(* Workflow of __init__.py *)

\* onClearFormatting: checkpoint and progress.start, before the loop
LegacyTrigger ==
    /\ phase = "Idle"
    /\ entry' = "legacy"
    /\ checkpoints' = checkpoints + 1
    /\ progress' = "started"
    /\ idx' = 1
    /\ GoTo("Applying")
    /\ UNCHANGED <<col, nids, field_name, clear_all, dlg_preserve, count,
                   flushed, notices, asked, before, confirmed>>
    /\ UNCHANGED stripVars

\* onClearFormatting: one iteration of "for nid in browser.selectedNotes()"
LegacyApplyNote ==
    /\ phase = "Applying"
    /\ entry = "legacy"
    /\ idx <= Len(nids)
    /\ LET nid == nids[idx]
           note == col[nid]
       IN /\ col' = [col EXCEPT ![nid].fields =
                        [i \in DOMAIN note.fields |->
                            stripFormattingLegacy(note.fields[i])]]
          /\ flushed' = Append(flushed, nid)
    /\ idx' = idx + 1
    /\ UNCHANGED <<nids, entry, phase, field_name, clear_all, dlg_preserve,
                   count, checkpoints, progress, notices, asked, before,
                   confirmed, visited>>
    /\ UNCHANGED stripVars

\* onClearFormatting after the loop: progress.finish, reset
LegacyFinish ==
    /\ phase = "Applying"
    /\ entry = "legacy"
    /\ idx > Len(nids)
    /\ progress' = "finished"
    /\ GoTo("Done")
    /\ UNCHANGED <<col, nids, entry, field_name, clear_all, dlg_preserve, idx,
                   count, checkpoints, flushed, notices, asked, before,
                   confirmed>>
    /\ UNCHANGED stripVars

Next ==
    \/ Trigger
    \/ DismissBlank
    \/ \E f \in {"Front", "Back", "Extra"} : SelectField(f)
    \/ ToggleAll
    \/ TogglePreserve
    \/ Cancel
    \/ ClickClear
    \/ AnswerNo
    \/ AnswerYes
    \/ ApplyNote
    \/ Finish
    \/ LegacyTrigger
    \/ LegacyApplyNote
    \/ LegacyFinish

Spec == InitWf /\ [][Next]_vars

TypeOK ==
    /\ phase \in {"Idle", "BlankDialog", "Configuring", "Confirming",
                  "Applying", "Raised", "Done", "off"}
    /\ entry \in {"none", "dialog", "legacy", "off"}
    /\ checkpoints \in Nat
    /\ count \in Nat

----------------------------------------------------------------------------
(* Claims about the workflow *)

ErrorNotice == [kind |-> "Error: Could not determine note type of selected notes",
                n |-> 0, scope |-> "none"]
NothingSelected == [kind |-> "No notes selected.", n |-> 0, scope |-> "none"]

\* notes whose stored fields differ from what they were at the trigger
Touched == {n \in NoteIds : col[n].fields # before[n].fields}

\* C1: no field is mutated and no note is written back unless the user
\* answered the confirmation prompt affirmatively in this invocation.
C1_NoMutationUnlessConfirmed ==
    ~confirmed => (col = before /\ flushed = <<>>)

\* C2: a note is written back only if one of its fields was changed by
\* stripping in this invocation.
C2_FlushOnlyIfChanged ==
    \A k \in DOMAIN flushed : flushed[k] \in Touched

\* C6: one undo checkpoint per invocation that applies; it is open before
\* the first write-back and none is opened between the write-backs.
C6_SingleUndoGroup ==
    [][/\ (flushed' # flushed => (checkpoints = 1 /\ checkpoints' = 1))
       /\ ((confirmed' \/ entry' = "legacy") => checkpoints' = 1)
       /\ ((~confirmed' /\ entry' # "legacy") => checkpoints' = 0)]_vars

\* an invocation that wrote several notes back under its one checkpoint
C6_Witness ==
    /\ phase = "Done"
    /\ confirmed
    /\ Len(flushed) >= 2
    /\ checkpoints = 1

\* the note type of the first selected note is not in the collection
FirstSchemaMissing == nids # <<>> /\ col[nids[1]].mid \notin DOMAIN Models

\* C7: when the note type of the first selected note cannot be determined,
\* the dialog workflow reports the error and never configures, confirms or
\* applies; nothing is mutated or written back.
C7_SchemaUnavailableAborts ==
    (entry = "dialog" /\ FirstSchemaMissing) =>
        /\ phase \in {"BlankDialog", "Done"}
        /\ notices = <<ErrorNotice>>
        /\ visited \cap {"Configuring", "Confirming", "Applying"} = {}
        /\ ~asked
        /\ checkpoints = 0
        /\ progress = "none"
        /\ col = before
        /\ flushed = <<>>

\* the workflow ended after the error, over notes that had formatting
C7_Witness ==
    /\ entry = "dialog"
    /\ phase = "Done"
    /\ Len(nids) >= 2
    /\ FirstSchemaMissing
    /\ ErrorNotice \in Range(notices)
    /\ \E n \in Range(nids) : col[n].fields[1] = BoldA

\* C8: with an empty selection the workflow gives the 'nothing selected'
\* notice and does nothing else: no dialog, no prompt, no checkpoint, no
\* progress indicator, no write.
C8_EmptySelectionIsNoOp ==
    (nids = <<>> /\ phase # "Idle") =>
        /\ phase = "Done"
        /\ notices = <<NothingSelected>>
        /\ visited = {"Idle", "Done"}
        /\ ~asked
        /\ checkpoints = 0
        /\ progress = "none"
        /\ col = before
        /\ flushed = <<>>

\* C9: the number in the summary is the number of notes touched or the
\* value of the change counter.
C9_SummaryIsChangeCount ==
    \A k \in DOMAIN notices :
        notices[k].kind = "Cleared formatting" =>
            notices[k].n \in {count, Cardinality(Touched)}

\* C10: with a single-field scope, an iteration changes at most the field
\* at the index of the requested name in the note's own note type; a note
\* whose note type lacks the name is left as it is and the loop goes on.
C10_SingleFieldFrame ==
    [][(entry = "dialog" /\ phase = "Applying" /\ ~clear_all /\ idx <= Len(nids)) =>
        LET nid == nids[idx]
            names == note_type(col[nid])
        IN /\ \A m \in NoteIds \ {nid} : col'[m] = col[m]
           /\ col'[nid].mid = col[nid].mid
           /\ names = None => col' = col
           /\ names # None =>
                \A i \in DOMAIN col[nid].fields :
                    col'[nid].fields[i] # col[nid].fields[i] =>
                        /\ field_name \in Range(names)
                        /\ i = IndexOf(names, field_name)
           /\ (names # None /\ field_name \notin Range(names)) =>
                /\ col' = col
                /\ phase' = "Applying"
                /\ idx' = idx + 1]_vars

\* a note lacking the requested name was passed over unchanged, and a note
\* after it had the requested field stripped
C10_Witness ==
    /\ entry = "dialog"
    /\ phase = "Done"
    /\ ~clear_all
    /\ \E j, k \in DOMAIN nids :
        /\ j < k
        /\ note_type(col[nids[j]]) # None
        /\ field_name \notin Range(note_type(col[nids[j]]))
        /\ col[nids[j]] = before[nids[j]]
        /\ col[nids[j]].fields[1] = BoldA
        /\ note_type(col[nids[k]]) # None
        /\ field_name \in Range(note_type(col[nids[k]]))
        /\ col[nids[k]] # before[nids[k]]

====
